---- MODULE Spec2Model ----
(***************************************************************************)
(* streamlit-photo-gallery (app.py): the path enumerator, the thumbnail    *)
(* cache keyer, renderer and manager, the deletion executor, and the       *)
(* Streamlit script that drives them.                                      *)
(*                                                                         *)
(* A file name is the sequence of its characters, a path is the sequence   *)
(* of its names below base_dir (base_dir itself is <<>>), and the file     *)
(* system is a function from the existing paths to their nodes.            *)
(***************************************************************************)
EXTENDS Naturals, Integers, Sequences, FiniteSets, TLC

VARIABLES
    fs,         \* the file system: existing path -> node
    now,        \* the wall clock (time.time())
    envWrites,  \* how many times the outside world has rewritten a source file
    call,       \* the latest display-path request (lines 265-270) and its outcome
    listed,     \* the latest list_images call and its outcome
    del,        \* the latest delete_paths call and its outcome
    selected_subdir,  \* the choice of the subdirectory select box (line 208)
    sort_by,          \* the choice of the sort order select box (line 211)
    subdirs,          \* list_subdirs(base_dir) of the latest script run (line 203)
    images,           \* the sorted listing of the latest script run (lines 214-223)
    checked,          \* st.session_state.checked: the indices mapped to True
    to_delete,        \* st.session_state.to_delete
    preview_index,    \* st.session_state.preview_index
    page,             \* how far the latest script run drew the page
    drawn,            \* how many images of the grid the latest script run drew
    crashes,          \* how many script runs an exception of the keyer has ended
    render,           \* the renderer's arithmetic (lines 115-134) on one source size
    sessions,         \* two sessions inside generate_thumbnail_if_needed (lines 105-146)
    keyed             \* thumb_path_for (lines 87-93) on two image paths

ui == <<selected_subdir, sort_by, subdirs, images, checked, to_delete, preview_index, page,
       drawn, crashes>>

aux == <<render, sessions, keyed>>

vars == <<fs, now, envWrites, call, listed, del, ui, aux>>

(***************************************************************************)
(* Bounds of the model.                                                    *)
(***************************************************************************)
MaxTime == 2
MaxWrites == 1
MaxBatch == 3

(***************************************************************************)
(* Characters and names.  A name is a string; Char(s, i) is its i-th       *)
(* character.                                                              *)
(***************************************************************************)
Char(s, i) == SubSeq(s, i, i)

\* The characters that occur in names, in code point order.
Alphabet == "-./ABCDEFGHIJKLMNOPQRSTUVWXYZ_abcdefghijklmnopqrstuvwxyz"

\* ord(): the place of each character in Alphabet.
CodePoints ==
    [c \in {Char(Alphabet, i) : i \in 1..Len(Alphabet)} |->
        CHOOSE i \in 1..Len(Alphabet) : Char(Alphabet, i) = c]

CharCode(c) == CodePoints[c]

\* str.lower() on each character: in Alphabet "a".."z" lie 27 places after
\* "A".."Z".
LowerChars ==
    [c \in DOMAIN CodePoints |->
        IF CodePoints[c] >= CodePoints["A"] /\ CodePoints[c] <= CodePoints["Z"]
        THEN Char(Alphabet, CodePoints[c] + 27)
        ELSE c]

LowerChar(c) == LowerChars[c]

RECURSIVE Lower(_)
Lower(s) == IF s = "" THEN "" ELSE LowerChar(Char(s, 1)) \o Lower(Tail(s))

\* Python's order on strings: lexicographic by code point.
RECURSIVE StrLess(_, _)
StrLess(s, t) ==
    IF t = "" THEN FALSE
    ELSE IF s = "" THEN TRUE
    ELSE IF Char(s, 1) # Char(t, 1) THEN CharCode(Char(s, 1)) < CharCode(Char(t, 1))
    ELSE StrLess(Tail(s), Tail(t))

\* pathlib's order on paths: lexicographic by parts.
RECURSIVE PathLess(_, _)
PathLess(p, q) ==
    IF q = <<>> THEN FALSE
    ELSE IF p = <<>> THEN TRUE
    ELSE IF p[1] # q[1] THEN StrLess(p[1], q[1])
    ELSE PathLess(Tail(p), Tail(q))

IMAGE_EXTS == {".png", ".jpg", ".jpeg", ".gif", ".bmp", ".webp", ".tiff"}

THUMB_DIRNAME == ".thumbnails"

\* PurePath.suffix: from the last dot on, unless that dot starts or ends the name.
LastDot(name) ==
    IF \E i \in 1..Len(name) : Char(name, i) = "."
    THEN CHOOSE i \in 1..Len(name) :
            Char(name, i) = "." /\ \A j \in (i + 1)..Len(name) : Char(name, j) # "."
    ELSE 0

Suffix(name) ==
    LET i == LastDot(name)
    IN  IF 1 < i /\ i < Len(name) THEN SubSeq(name, i, Len(name)) ELSE ""

(***************************************************************************)
(* Paths and the file system.                                              *)
(***************************************************************************)
BaseDir == <<>>

Child(d, name) == Append(d, name)
Parent(p) == SubSeq(p, 1, Len(p) - 1)
BaseName(p) == p[Len(p)]

\* A node.  A file has its modification time and its bytes: `ok' says whether
\* they decode as an image (a thumbnail: whether it was written completely),
\* `ver' which picture they show, `depth' how many times it was rendered
\* (0: an original).  `srcm' remembers the source's modification time when a
\* thumbnail was written (history, not on disk).
DirNode == [kind |-> "dir", mtime |-> 0, ok |-> TRUE, ver |-> 0, depth |-> 0, srcm |-> 0]
FileNode(m, ok, ver, depth, srcm) ==
    [kind |-> "file", mtime |-> m, ok |-> ok, ver |-> ver, depth |-> depth, srcm |-> srcm]

Exists(f, p) == p \in DOMAIN f
IsDir(f, p) == p \in DOMAIN f /\ f[p].kind = "dir"
IsFile(f, p) == p \in DOMAIN f /\ f[p].kind = "file"

Put(f, p, node) == [q \in (DOMAIN f) \cup {p} |-> IF q = p THEN node ELSE f[q]]
Remove(f, p) == [q \in (DOMAIN f) \ {p} |-> f[q]]

Children(f, d) == {p \in DOMAIN f : Len(p) = Len(d) + 1 /\ Parent(p) = d}

\* The orders in which a directory scan may yield a set of entries.
Orders(S) ==
    {s \in [1..Cardinality(S) -> S] : \A i, j \in 1..Cardinality(S) : s[i] = s[j] => i = j}

\* sorted() of a set of paths.
RECURSIVE SortedPaths(_)
SortedPaths(S) ==
    IF S = {} THEN <<>>
    ELSE LET m == CHOOSE x \in S : \A y \in S \ {x} : PathLess(x, y)
         IN  <<m>> \o SortedPaths(S \ {m})

(***************************************************************************)
(* Path Enumerator.                                                        *)
(***************************************************************************)
\* list_subdirs: the sorted directories among base's children; [] when
\* iterdir() or is_dir() raises (err).
list_subdirs(f, base, err) ==
    IF err \/ ~IsDir(f, base)
    THEN <<>>
    ELSE SortedPaths({p \in Children(f, base) : IsDir(f, p)})

\* p.suffix.lower() in IMAGE_EXTS (line 74).
IsImageNameCaseSensitive(name) == Suffix(name) \in IMAGE_EXTS
IsImageName(name) == Lower(Suffix(name)) \in IMAGE_EXTS

\* The loop of list_images over the entries order[k..]: an exception raised
\* while entry errAt is examined ends the loop, and `out' is returned as it is.
RECURSIVE ListImagesFrom(_, _, _, _, _)
ListImagesFrom(f, order, k, errAt, out) ==
    IF k > Len(order) THEN out
    ELSE IF errAt = k THEN out
    ELSE LET p == order[k]
             keep == IsFile(f, p) /\ IsImageName(BaseName(p))
         IN  ListImagesFrom(f, order, k + 1, errAt,
                            IF keep THEN Append(out, <<p, f[p].mtime>>) ELSE out)

\* list_images.  `order' is the order in which iterdir() yields the entries;
\* errAt = 0: iterdir() itself raises, errAt = k > 0: examining entry k raises
\* (is_file() or stat()), errAt = -1: nothing raises.
list_images(f, dirpath, order, errAt) ==
    IF errAt = 0 \/ ~IsDir(f, dirpath)
    THEN <<>>
    ELSE ListImagesFrom(f, order, 1, errAt, <<>>)

(***************************************************************************)
(* Thumbnail Cache Keyer.                                                  *)
(***************************************************************************)
\* path.resolve(): base_dir is taken to be the root directory and the model
\* has no symbolic links, so resolving a path drops each ".." together with
\* the name before it (the parent of the root is the root).
RECURSIVE ResolveFrom(_, _)
ResolveFrom(p, acc) ==
    IF p = <<>> THEN acc
    ELSE IF p[1] = ".." THEN ResolveFrom(Tail(p), SubSeq(acc, 1, Len(acc) - 1))
    ELSE ResolveFrom(Tail(p), Append(acc, p[1]))

Resolve(p) == ResolveFrom(p, <<>>)

\* The mutation of PathStr: the string of the last name only.
NameStr(p) == IF p = <<>> THEN "" ELSE "/" \o p[Len(p)]

\* str() of an absolute path: "/" + "/".join(parts).
RECURSIVE PathStr(_)
PathStr(p) == IF p = <<>> THEN "" ELSE "/" \o p[1] \o PathStr(Tail(p))

\* hashlib.sha1(...).hexdigest().  SHA-1 is taken to be free of collisions:
\* the digest is modelled by an injective encoding of the string in which no
\* "." and no "/" occurs ("." is written "_d", "/" is "_s", "_" is "_u").
RECURSIVE Sha1Hex(_)
Sha1Hex(s) ==
    IF s = "" THEN ""
    ELSE (IF Char(s, 1) = "." THEN "_d"
          ELSE IF Char(s, 1) = "/" THEN "_s"
          ELSE IF Char(s, 1) = "_" THEN "_u"
          ELSE Char(s, 1))
         \o Sha1Hex(Tail(s))

\* ensure_thumb_dir: mkdir(exist_ok=True) of dirpath/.thumbnails.  It raises
\* when the directory is missing and cannot be made (fault "mkdir"), and when
\* the name exists and is no directory.
ensure_thumb_dir(f, dirpath, fault) ==
    LET td == Child(dirpath, THUMB_DIRNAME)
    IN  IF IsDir(f, td) THEN [fs |-> f, td |-> td, raised |-> FALSE]
        ELSE IF Exists(f, td) \/ fault = "mkdir" THEN [fs |-> f, td |-> td, raised |-> TRUE]
        ELSE [fs |-> Put(f, td, DirNode), td |-> td, raised |-> FALSE]

\* thumb_path_for: thumb_dir/<sha1 of the resolved path>.jpg.  resolve() and
\* encode("utf-8") run outside any try block (fault "key": one of them raises).
thumb_path_for(image_path, thumb_dir, fault) ==
    [path   |-> Child(thumb_dir, Sha1Hex(PathStr(Resolve(image_path))) \o ".jpg"),
     raised |-> fault = "key"]

(***************************************************************************)
(* Thumbnail Cache Manager.                                                *)
(***************************************************************************)
\* The steps of a display-path request that the environment can make fail.
Faults ==
    {"none", "mkdir", "key", "stat", "open", "save_open", "save_write", "utime"}

\* The outcome of the except branch (lines 147-149): the original image path.
Fallback(f, step) ==
    [fs |-> f, ret |-> "image", hit |-> FALSE, wrote |-> FALSE, failed |-> step]

\* What canvas.save writes at time t from the decoded source, and what it
\* leaves when the encoder fails after the file was opened for writing.
Rendered(src, t) == FileNode(t, TRUE, src.ver, src.depth + 1, src.mtime)
Truncated(src, t) == FileNode(t, FALSE, src.ver, src.depth + 1, src.mtime)

\* The cache check of line 107.
UpToDateStrict(f, image_path, thumb_path) ==
    Exists(f, thumb_path) /\ f[thumb_path].mtime > f[image_path].mtime
UpToDateIgnoresMtime(f, image_path, thumb_path) == Exists(f, thumb_path)
UpToDate(f, image_path, thumb_path) ==
    Exists(f, thumb_path) /\ f[thumb_path].mtime >= f[image_path].mtime

\* Lines 140-144: os.utime sets the thumbnail's mtime to the source's; a
\* failure of it is swallowed.
SetThumbMtimeSkipped(f, image_path, thumb_path, fault) == f
SetThumbMtime(f, image_path, thumb_path, fault) ==
    IF fault = "utime" THEN f
    ELSE Put(f, thumb_path, [f[thumb_path] EXCEPT !.mtime = f[image_path].mtime])

\* Lines 136-138: make the cache directory and save the canvas as JPEG.
\* Image.save opens the file for writing, creating or truncating it
\* ("save_open": that fails), and runs the encoder; when the encoder raises
\* ("save_write": the disk is full), Pillow removes the file if this call
\* created it, and a file that existed before stays as far as it was written.
SaveThumb(f, t, image_path, thumb_path, fault) ==
    LET td  == Parent(thumb_path)
        f1  == IF IsDir(f, td) THEN f ELSE Put(f, td, DirNode)
        src == f[image_path]
    IN  IF ~IsDir(f, td) /\ fault = "mkdir" THEN [fs |-> f, ok |-> FALSE]
        ELSE IF fault = "save_open" THEN [fs |-> f1, ok |-> FALSE]
        ELSE IF fault = "save_write" /\ ~Exists(f, thumb_path) THEN [fs |-> f1, ok |-> FALSE]
        ELSE IF fault = "save_write"
             THEN [fs |-> Put(f1, thumb_path, Truncated(src, t)), ok |-> FALSE]
        ELSE [fs |-> Put(f1, thumb_path, Rendered(src, t)), ok |-> TRUE]

\* generate_thumbnail_if_needed at time t.
generate_thumbnail_if_needed(f, t, image_path, thumb_path, fault) ==
    IF Exists(f, thumb_path) /\ (fault = "stat" \/ ~Exists(f, image_path))
    THEN Fallback(f, "stat")
    ELSE IF Exists(f, image_path) /\ UpToDate(f, image_path, thumb_path)
    THEN [fs |-> f, ret |-> "thumb", hit |-> TRUE, wrote |-> FALSE, failed |-> "none"]
    ELSE IF ~Exists(f, image_path) \/ fault = "open"
    THEN Fallback(f, "open")
    ELSE IF ~f[image_path].ok
    THEN Fallback(f, "decode")
    ELSE LET s == SaveThumb(f, t, image_path, thumb_path, fault)
         IN  IF ~s.ok THEN Fallback(s.fs, "save")
             ELSE [fs     |-> SetThumbMtime(s.fs, image_path, thumb_path, fault),
                   ret    |-> "thumb", hit |-> FALSE, wrote |-> TRUE,
                   failed |-> IF fault = "utime" THEN "utime" ELSE "none"]

\* One display-path request as the script makes it (lines 265 and 270):
\* ensure_thumb_dir, thumb_path_for, generate_thumbnail_if_needed.  An
\* exception of the first two is not caught: the request raises.
DisplayPath(f, t, dirpath, image_path, fault) ==
    LET e == ensure_thumb_dir(f, dirpath, fault)
        k == thumb_path_for(image_path, e.td, fault)
        g == generate_thumbnail_if_needed(e.fs, t, image_path, k.path, fault)
    IN  IF e.raised
        THEN [fs |-> f, tp |-> k.path, ret |-> "raised", hit |-> FALSE, wrote |-> FALSE,
              failed |-> "mkdir"]
        ELSE IF k.raised
        THEN [fs |-> e.fs, tp |-> k.path, ret |-> "raised", hit |-> FALSE, wrote |-> FALSE,
              failed |-> "key"]
        ELSE [fs |-> g.fs, tp |-> k.path, ret |-> g.ret, hit |-> g.hit, wrote |-> g.wrote,
              failed |-> g.failed]

(***************************************************************************)
(* Deletion Executor.                                                      *)
(***************************************************************************)
\* delete_paths over paths[k..]: os.remove raises for a missing path and for
\* one the environment refuses (denied); the loop goes on either way.
RECURSIVE DeleteFrom(_, _, _, _, _, _)
DeleteFrom(f, paths, k, denied, successes, failures) ==
    IF k > Len(paths) THEN [fs |-> f, successes |-> successes, failures |-> failures]
    ELSE LET p == paths[k]
         IN  IF IsFile(f, p) /\ p \notin denied
             THEN DeleteFrom(Remove(f, p), paths, k + 1, denied, Append(successes, p), failures)
             ELSE DeleteFrom(f, paths, k + 1, denied, successes,
                             Append(failures,
                                    <<p, IF Exists(f, p) THEN "denied" ELSE "missing">>))

\* The same loop leaving at the first failure.
RECURSIVE DeleteUntilFailure(_, _, _, _, _)
DeleteUntilFailure(f, paths, k, denied, successes) ==
    IF k > Len(paths) THEN [fs |-> f, successes |-> successes, failures |-> <<>>]
    ELSE LET p == paths[k]
         IN  IF IsFile(f, p) /\ p \notin denied
             THEN DeleteUntilFailure(Remove(f, p), paths, k + 1, denied, Append(successes, p))
             ELSE [fs |-> f, successes |-> successes,
                   failures |-> << <<p, IF Exists(f, p) THEN "denied" ELSE "missing">> >>]

delete_paths_aborting(f, paths, denied) == DeleteUntilFailure(f, paths, 1, denied, <<>>)
delete_paths(f, paths, denied) == DeleteFrom(f, paths, 1, denied, <<>>, <<>>)

(***************************************************************************)
(* The initial file system: base_dir holds a.png, b.txt and the            *)
(* subdirectory alb, which holds c.JPG and d.gif.  No thumbnail exists.    *)
(***************************************************************************)
NameA == "a.png"
NameB == "b.txt"
NameC == "c.JPG"
NameD == "d.gif"
NameAlb == "alb"

PathA == Child(BaseDir, NameA)
PathB == Child(BaseDir, NameB)
AlbDir == Child(BaseDir, NameAlb)
PathC == Child(AlbDir, NameC)
PathD == Child(AlbDir, NameD)

InitFs ==
    [p \in {BaseDir, PathA, PathB, AlbDir, PathC, PathD} |->
        IF p \in {BaseDir, AlbDir} THEN DirNode
        ELSE FileNode(IF p = PathD THEN 1 ELSE 0, TRUE, 1, 0, 0)]

Range(s) == {s[i] : i \in 1..Len(s)}

NoCall ==
    [op |-> "none", img |-> <<>>, tp |-> <<>>, at |-> 0, failed |-> "none", ret |-> "none",
     hit |-> FALSE, wrote |-> FALSE, hadThumb |-> FALSE, old |-> DirNode,
     prevRet |-> "none", prevFailed |-> FALSE]

NoList == [op |-> "none", dir |-> <<>>, order |-> <<>>, errAt |-> -1, out |-> <<>>]

NoDel ==
    [op |-> "none", paths |-> <<>>, denied |-> {}, successes |-> <<>>, failures |-> <<>>,
     before |-> <<>>]

NoRender ==
    [stage |-> "none", src_w |-> 0, src_h |-> 0, target_w |-> 0, target_h |-> 0,
     new_w |-> 0, new_h |-> 0, offset_x |-> 0, offset_y |-> 0, width |-> 0, height |-> 0]

NoSessions == <<>>

NoKeys == [stage |-> "none", image_path |-> <<>>, thumb_dir |-> <<>>, key |-> <<>>]

\* The gallery before the first script run.
Gallery ==
    /\ fs = InitFs
    /\ now = 1
    /\ envWrites = 0
    /\ call = NoCall
    /\ listed = NoList
    /\ del = NoDel
    /\ selected_subdir = "."
    /\ sort_by = "name_desc"
    /\ subdirs = <<>>
    /\ images = <<>>
    /\ checked = {}
    /\ to_delete = <<>>
    /\ preview_index = -1
    /\ page = "init"
    /\ drawn = 0
    /\ crashes = 0

Init ==
    /\ Gallery
    /\ render = NoRender
    /\ sessions = NoSessions
    /\ keyed = NoKeys

(***************************************************************************)
(* The core as its collaborator calls it (spec section 6): list the        *)
(* images of a gallery directory, ask for the display path of one of       *)
(* them, delete a batch of them.                                           *)
(***************************************************************************)
\* The image paths list_images finds in dirpath when nothing fails.
ImagesOf(f, dirpath) ==
    {e[1] : e \in Range(list_images(f, dirpath, SortedPaths(Children(f, dirpath)), -1))}

\* A step that failed for the environment's sake, not for the image's bytes.
EnvFailure(step) == step \notin {"none", "decode"}

\* The record of one display-path request: its outcome, the thumbnail it
\* found, and the outcome of the request before it when that one was for the
\* same image and the source has not changed since (`last' is that request).
CallRecord(f, t, last, img, r) ==
    [op |-> "display", img |-> img, tp |-> r.tp, at |-> t,
     failed |-> r.failed, ret |-> r.ret, hit |-> r.hit, wrote |-> r.wrote,
     hadThumb |-> Exists(f, r.tp),
     old |-> IF Exists(f, r.tp) THEN f[r.tp] ELSE DirNode,
     prevRet |-> IF last.op = "display" /\ last.img = img THEN last.ret ELSE "none",
     prevFailed |-> last.op = "display" /\ last.img = img /\ EnvFailure(last.failed)]

\* Lines 265 and 270 for one image of a gallery directory.
CoreDisplay(dirpath, img, fault) ==
    LET r == DisplayPath(fs, now, dirpath, img, fault)
    IN  /\ fs' = r.fs
        /\ call' = CallRecord(fs, now, call, img, r)
        /\ listed' = NoList
        /\ del' = NoDel
        /\ UNCHANGED <<aux, now, envWrites, ui>>

\* list_images of a directory (line 214), with the order of the scan and the
\* place of an error chosen by the environment.
CoreList(dirpath, order, errAt) ==
    /\ listed' = [op |-> "list", dir |-> dirpath, order |-> order, errAt |-> errAt,
                  out |-> list_images(fs, dirpath, order, errAt)]
    /\ call' = NoCall
    /\ del' = NoDel
    /\ UNCHANGED <<aux, fs, now, envWrites, ui>>

\* The batches the script stages: distinct image paths, MaxBatch at most.
Batches(S) ==
    UNION {{s \in [1..n -> S] : \A i, j \in 1..n : s[i] = s[j] => i = j} : n \in 1..MaxBatch}

\* delete_paths of a batch (line 348); the environment refuses some removals.
CoreDelete(paths, denied) ==
    LET r == delete_paths(fs, paths, denied)
    IN  /\ fs' = r.fs
        /\ del' = [op |-> "delete", paths |-> paths, denied |-> denied,
                   successes |-> r.successes, failures |-> r.failures, before |-> fs]
        /\ call' = NoCall
        /\ listed' = NoList
        /\ UNCHANGED <<aux, now, envWrites, ui>>

(***************************************************************************)
(* The environment: the clock, and the outside world rewriting a source.   *)
(***************************************************************************)
Tick ==
    /\ now < MaxTime
    /\ now' = now + 1
    /\ listed' = NoList
    /\ del' = NoDel
    /\ UNCHANGED <<aux, fs, envWrites, call, ui>>

\* The source image p gets modification time m.  With `fresh' it also gets
\* new bytes, which decode (ok) or not; without, its bytes stay (a touch).
EnvWrite(p, m, ok, fresh) ==
    LET node == IF fresh THEN FileNode(m, ok, fs[p].ver + 1, 0, 0)
                ELSE [fs[p] EXCEPT !.mtime = m]
    IN  /\ envWrites < MaxWrites
        /\ IsFile(fs, p)
        /\ fresh \/ (ok /\ m # fs[p].mtime)
        /\ fs' = Put(fs, p, node)
        /\ envWrites' = envWrites + 1
        /\ call' = NoCall
        /\ listed' = NoList
        /\ del' = NoDel
        /\ UNCHANGED <<aux, now, ui>>

Originals == {PathA, PathC, PathD}

\* The gallery of one directory, base_dir, shown again and again while the
\* clock moves and the outside world rewrites its images.
CacheDisplay ==
    \E img \in ImagesOf(fs, BaseDir) :
      \E fault \in Faults : CoreDisplay(BaseDir, img, fault)

CacheWrite ==
    \E p \in ImagesOf(fs, BaseDir) :
      \E m \in 0..MaxTime, ok \in BOOLEAN, fresh \in BOOLEAN : EnvWrite(p, m, ok, fresh)

NextCache == CacheDisplay \/ Tick \/ CacheWrite

SpecCache == Init /\ [][NextCache]_vars

\* The enumerator over the directories of a file system whose cache fills
\* as the gallery of base_dir is shown.
FilesList ==
    \E d \in {p \in DOMAIN fs : IsDir(fs, p)} :
      \E order \in Orders(Children(fs, d)) :
        \E errAt \in (-1)..Len(order) : CoreList(d, order, errAt)

NextList == FilesList \/ CacheDisplay

SpecList == Init /\ [][NextList]_vars

\* The deletion executor over batches of the images, one batch after another.
FilesDelete ==
    \E paths \in Batches(Originals) :
      \E denied \in SUBSET Range(paths) : CoreDelete(paths, denied)

NextDelete == FilesDelete \/ CacheDisplay

SpecDelete == Init /\ [][NextDelete]_vars

(***************************************************************************)
(* The Streamlit script (lines 181-364).  Every interaction of the user    *)
(* runs the script from its top with the widget that was used reporting    *)
(* its new value; a callback of that widget runs before the script.  The   *)
(* body of an open dialog is a fragment: its buttons run that body alone.  *)
(* A dialog is modal: while one is open, only its own widgets are used.    *)
(***************************************************************************)
\* The four choices of the sort order select box, in the order of line 211;
\* the box starts on the second.
SortOrders == {"name_asc", "name_desc", "mtime_desc", "mtime_asc"}

\* Lines 216-223: whether list.sort puts x strictly before y.
Before(x, y, order) ==
    IF order = "name_asc" THEN StrLess(Lower(BaseName(x[1])), Lower(BaseName(y[1])))
    ELSE IF order = "name_desc" THEN StrLess(Lower(BaseName(y[1])), Lower(BaseName(x[1])))
    ELSE IF order = "mtime_desc" THEN x[2] > y[2]
    ELSE x[2] < y[2]

\* list.sort is stable, with reverse=True too: equal keys keep their order.
RECURSIVE Insert(_, _, _)
Insert(x, s, order) ==
    IF s = <<>> THEN <<x>>
    ELSE IF Before(x, s[1], order) THEN <<x>> \o s
    ELSE <<s[1]>> \o Insert(x, Tail(s), order)

\* s[k..] inserted one by one into out, the sorted s[1..k-1].
RECURSIVE SortFrom(_, _, _, _)
SortFrom(s, k, order, out) ==
    IF k > Len(s) THEN out
    ELSE CHOOSE r \in {SortFrom(s, k + 1, order, o) : o \in {Insert(s[k], out, order)}} : TRUE

SortImages(s, order) == SortFrom(s, 1, order, <<>>)

\* The order in which iterdir() yields a directory when the script scans it.
\* The sort keys of the images of a directory are distinct here, so the
\* listing after list.sort does not depend on it: the ascending one is taken.
ScanOrder(f, d) == SortedPaths(Children(f, d))

\* Lines 245-249: the paths of the checked indices k, k + 1, ... of images
\* (the dict is read here in ascending order of its keys).
RECURSIVE Staged(_, _, _)
Staged(imgs, chk, k) ==
    IF k >= Len(imgs) THEN <<>>
    ELSE (IF k \in chk THEN <<imgs[k + 1][1]>> ELSE <<>>) \o Staged(imgs, chk, k + 1)

\* Line 343: the dialog shows and deletes the first 200 staged paths.
ConfirmLimit == 200
Shown(td) == SubSeq(td, 1, IF Len(td) < ConfirmLimit THEN Len(td) ELSE ConfirmLimit)

\* The loop of lines 268-283 over imgs[k..], as far as the file system goes:
\* thumb_path_for and generate_thumbnail_if_needed for each image.  An
\* exception of thumb_path_for, raised for image number `at' (0: for none),
\* ends the script run with the images before it drawn.  f2 is the file
\* system as the request for image k leaves it.
RECURSIVE GridFrom(_, _, _, _, _, _)
GridFrom(f, t, thumb_dir, imgs, k, at) ==
    IF k > Len(imgs) THEN [fs |-> f, raised |-> FALSE, drawn |-> Len(imgs)]
    ELSE LET key == thumb_path_for(imgs[k][1], thumb_dir, IF k = at THEN "key" ELSE "none")
         IN  IF key.raised THEN [fs |-> f, raised |-> TRUE, drawn |-> k - 1]
             ELSE CHOOSE r \in
                    {GridFrom(f2, t, thumb_dir, imgs, k + 1, at) :
                       f2 \in {generate_thumbnail_if_needed(f, t, imgs[k][1], key.path, "none").fs}} :
                    TRUE

\* Lines 261-283: nothing for an empty listing, else ensure_thumb_dir (an
\* exception of it ends the script run) and the loop.
Grid(f, t, target_dir, imgs, at) ==
    IF imgs = <<>> THEN [fs |-> f, raised |-> FALSE, drawn |-> 0]
    ELSE LET e == ensure_thumb_dir(f, target_dir, "none")
         IN  IF e.raised THEN [fs |-> f, raised |-> TRUE, drawn |-> 0]
             ELSE GridFrom(e.fs, t, e.td, imgs, 1, at)

\* Lines 203-223: the subdirectories, the choice of the select box (its
\* first option when the chosen one is not offered), the directory shown and
\* its sorted listing.  With no subdirectory the script stops at line 206.
Sidebar(f, sel, order) ==
    LET sd     == list_subdirs(f, BaseDir, FALSE)
        sel1   == IF sel \in {BaseName(p) : p \in Range(sd)} THEN sel ELSE "."
        target == IF sel1 = "." THEN BaseDir ELSE Child(BaseDir, sel1)
    IN  [subdirs |-> sd, selected_subdir |-> sel1, target_dir |-> target,
         images  |-> IF sd = <<>> THEN <<>>
                     ELSE SortImages(list_images(f, target, ScanOrder(f, target), -1), order)]

\* Lines 233-253: the three buttons below the select boxes.  `pressed' is the
\* button that started the run ("none": another widget, or st.rerun()).
\* images[int(k)] raises for a checked index that the listing does not have.
SidebarButtons(imgs, chk, td, pressed) ==
    LET chk1 == IF pressed = "select_all" THEN chk \cup (0..(Len(imgs) - 1))
                ELSE IF pressed = "clear_all" THEN {}
                ELSE chk
    IN  IF pressed = "bulk" /\ \E k \in chk1 : k >= Len(imgs)
        THEN [checked |-> chk1, to_delete |-> td, raised |-> TRUE]
        ELSE [checked   |-> chk1,
              to_delete |-> IF pressed = "bulk" /\ chk1 # {} THEN Staged(imgs, chk1, 0) ELSE td,
              raised    |-> FALSE]

\* Lines 278-283: the preview and the delete button of image arg, which act
\* when the run gets as far as drawing them (n images were drawn).
GridButtons(imgs, td, pv, pressed, arg, n) ==
    [preview_index |-> IF pressed = "preview" /\ arg < n THEN arg ELSE pv,
     to_delete     |-> IF pressed = "delete" /\ arg < n THEN <<imgs[arg + 1][1]>> ELSE td]

\* Lines 361-364: which dialogs the end of the script opens.  images[img_i]
\* in show_preview raises for an index that the listing does not have.
Dispatch(imgs, td, pv) ==
    IF pv >= Len(imgs) THEN "crashed"
    ELSE IF pv >= 0 /\ td # <<>> THEN "both"
    ELSE IF pv >= 0 THEN "preview"
    ELSE IF td # <<>> THEN "confirm"
    ELSE "grid"

\* How many script runs the keyer's exception may end.
MaxCrashes == 1

\* Where the grid of a run may raise: nowhere (0) or, while the budget lasts,
\* at thumb_path_for of one of the images (line 270; the exception is not
\* caught).  The other failing steps of a display-path request are those of
\* SpecCache.
CrashPoints(imgs, n) == {0} \cup (IF n < MaxCrashes THEN 1 .. Len(imgs) ELSE {})

\* One run of the script on the file system f: sel and order are the values
\* of the two select boxes, chk, td and pv the session state as the callbacks
\* left it, `pressed' the button that started the run and arg the index of
\* its image; d records the delete_paths call that came before the run, if
\* any.  `page' says how far the page was drawn: "stopped" (line 206),
\* "crashed" (an exception ended the run after the sidebar), "grid" (all of
\* it, no dialog), "preview", "confirm" or "both" (the dialogs opened).
Rerun(f, sel, order, chk, td, pv, pressed, arg, d) ==
    \E s \in {Sidebar(f, sel, order)} :
      \E b \in {SidebarButtons(s.images, chk, td, pressed)} :
        \E at \in IF s.subdirs = <<>> \/ b.raised THEN {0} ELSE CrashPoints(s.images, crashes) :
          \E g \in {IF s.subdirs = <<>> \/ b.raised THEN [fs |-> f, raised |-> FALSE, drawn |-> 0]
                    ELSE Grid(f, now, s.target_dir, s.images, at)} :
            \E c \in {GridButtons(s.images, b.to_delete, pv, pressed, arg, g.drawn)} :
              /\ fs' = g.fs
              /\ selected_subdir' = s.selected_subdir
              /\ sort_by' = order
              /\ subdirs' = s.subdirs
              /\ images' = s.images
              /\ drawn' = g.drawn
              /\ crashes' = IF at = 0 THEN crashes ELSE crashes + 1
              /\ IF s.subdirs = <<>>
                 THEN /\ page' = "stopped"
                      /\ checked' = chk /\ to_delete' = td /\ preview_index' = pv
                 ELSE IF b.raised
                 THEN /\ page' = "crashed"
                      /\ checked' = b.checked /\ to_delete' = b.to_delete
                      /\ preview_index' = pv
                 ELSE /\ page' = IF g.raised THEN "crashed"
                                 ELSE Dispatch(s.images, c.to_delete, c.preview_index)
                      /\ checked' = b.checked /\ to_delete' = c.to_delete
                      /\ preview_index' = c.preview_index
              /\ del' = d
              /\ call' = NoCall
              /\ listed' = NoList
              /\ UNCHANGED <<aux, now, envWrites>>

\* The sidebar, and as much of the grid as was drawn, with no dialog over it.
SidebarUp == page \in {"grid", "crashed"}

\* The preview dialog is open: alone, or with the exception that Streamlit
\* raises when the script opens the second dialog after it (lines 361-364).
PreviewUp == page \in {"preview", "both"}

\* The options of the subdirectory select box (line 208).
Options == {"."} \cup {BaseName(p) : p \in Range(subdirs)}

\* The browser opens the page: the first run of the script.
Load ==
    /\ page = "init"
    /\ Rerun(fs, selected_subdir, sort_by, checked, to_delete, preview_index, "none", 0, NoDel)

\* Line 208: the user chooses another subdirectory.
SelectSubdir ==
    /\ SidebarUp
    /\ \E s \in Options \ {selected_subdir} :
         Rerun(fs, s, sort_by, checked, to_delete, preview_index, "none", 0, NoDel)

\* Line 211: the user chooses another sort order.
SortBy ==
    /\ SidebarUp
    /\ \E o \in SortOrders \ {sort_by} :
         Rerun(fs, selected_subdir, o, checked, to_delete, preview_index, "none", 0, NoDel)

\* Lines 225-226: the reload button; st.rerun() starts the script again.
Reload ==
    /\ SidebarUp
    /\ Rerun(fs, selected_subdir, sort_by, checked, to_delete, preview_index, "none", 0, NoDel)

\* Lines 233-237.
SelectAll ==
    /\ SidebarUp
    /\ Rerun(fs, selected_subdir, sort_by, checked, to_delete, preview_index,
             "select_all", 0, NoDel)

\* Lines 239-242.
ClearAll ==
    /\ SidebarUp
    /\ Rerun(fs, selected_subdir, sort_by, checked, to_delete, preview_index,
             "clear_all", 0, NoDel)

\* Lines 243-253: the bulk delete button.
BulkDelete ==
    /\ SidebarUp
    /\ Rerun(fs, selected_subdir, sort_by, checked, to_delete, preview_index, "bulk", 0, NoDel)

\* Lines 165-168 and 273-275: the checkbox of image i shows checked.get(i);
\* clicking it flips that and checkbox_on_change stores the new value.
Checkbox ==
    /\ SidebarUp
    /\ \E i \in 0..(drawn - 1) :
         Rerun(fs, selected_subdir, sort_by,
               IF i \in checked THEN checked \ {i} ELSE checked \cup {i},
               to_delete, preview_index, "none", 0, NoDel)

\* Lines 278-279: the preview button of image i.
PreviewButton ==
    /\ SidebarUp
    /\ \E i \in 0..(drawn - 1) :
         Rerun(fs, selected_subdir, sort_by, checked, to_delete, preview_index,
               "preview", i, NoDel)

\* Lines 281-283: the delete button of image i.
DeleteButton ==
    /\ SidebarUp
    /\ \E i \in 0..(drawn - 1) :
         Rerun(fs, selected_subdir, sort_by, checked, to_delete, preview_index,
               "delete", i, NoDel)

\* A button of the preview dialog that runs its body alone (lines 298-308).
PreviewStep(to) ==
    /\ PreviewUp
    /\ preview_index' = to
    /\ del' = NoDel
    /\ call' = NoCall
    /\ listed' = NoList
    /\ UNCHANGED <<aux, fs, now, envWrites, selected_subdir, sort_by, subdirs, images, checked,
                   to_delete, page, drawn, crashes>>

PreviewPrev ==
    PreviewStep(IF preview_index - 1 >= 0 THEN preview_index - 1 ELSE preview_index)

PreviewNext ==
    PreviewStep(IF preview_index + 1 < Len(images) THEN preview_index + 1 ELSE preview_index)

\* Lines 310-314: delete this image only; st.rerun() runs the whole script.
PreviewDelete ==
    /\ PreviewUp
    /\ Rerun(fs, selected_subdir, sort_by, checked, <<images[preview_index + 1][1]>>, -1,
             "none", 0, NoDel)

\* Lines 172-173: the preview dialog is dismissed.
PreviewDismiss ==
    /\ PreviewUp
    /\ Rerun(fs, selected_subdir, sort_by, checked, to_delete, -1, "none", 0, NoDel)

\* The mutation of ConfirmDelete: line 354 is left out.
ConfirmDeleteKeepsChecked ==
    /\ page = "confirm"
    /\ \E denied \in SUBSET Range(Shown(to_delete)) :
         LET r == delete_paths(fs, Shown(to_delete), denied)
         IN  \E f \in {r.fs} :
               Rerun(f, selected_subdir, sort_by, checked, <<>>, preview_index, "none", 0,
                     [op |-> "delete", paths |-> Shown(to_delete), denied |-> denied,
                      successes |-> r.successes, failures |-> r.failures, before |-> fs])

\* Lines 347-356: the confirm button; the environment refuses some removals.
ConfirmDelete ==
    /\ page = "confirm"
    /\ \E denied \in SUBSET Range(Shown(to_delete)) :
         LET r == delete_paths(fs, Shown(to_delete), denied)
         IN  \E f \in {r.fs} :
               Rerun(f, selected_subdir, sort_by, {}, <<>>, preview_index, "none", 0,
                     [op |-> "delete", paths |-> Shown(to_delete), denied |-> denied,
                      successes |-> r.successes, failures |-> r.failures, before |-> fs])

\* Lines 174-175: the confirmation dialog is dismissed.
ConfirmDismiss ==
    /\ page = "confirm"
    /\ Rerun(fs, selected_subdir, sort_by, checked, <<>>, preview_index, "none", 0, NoDel)

Next ==
    \/ Load
    \/ SelectSubdir
    \/ SortBy
    \/ Reload
    \/ SelectAll
    \/ ClearAll
    \/ BulkDelete
    \/ Checkbox
    \/ PreviewButton
    \/ DeleteButton
    \/ PreviewPrev
    \/ PreviewNext
    \/ PreviewDelete
    \/ PreviewDismiss
    \/ ConfirmDelete
    \/ ConfirmDismiss

Spec == Init /\ [][Next]_vars

(***************************************************************************)
(* The claims.                                                             *)
(***************************************************************************)
Displayed == call.op = "display"

\* The request left the thumbnail file as it found it.
ThumbUntouched ==
    /\ ~call.wrote
    /\ Exists(fs, call.tp) = call.hadThumb
    /\ call.hadThumb => fs[call.tp] = call.old

\* A path the latest request returned, and one the request before it returned.
Returned == Displayed /\ call.ret \in {"thumb", "image"}
ReturnedBefore == call.prevRet \in {"thumb", "image"}

C4_NeverBroken ==
    (Displayed /\ call.ret = "thumb") => (IsFile(fs, call.tp) /\ fs[call.tp].ok)

\* C5: the request never raises, and when a step failed its result is the
\* original image path.
C5_NeverRaises ==
    Displayed => (call.ret # "raised" /\ (call.failed # "none" => call.ret = "image"))

Deleted == del.op = "delete"

FailedPaths == {del.failures[k][1] : k \in 1..Len(del.failures)}

\* C6: every path of the batch is reported exactly once, as a success or as
\* a failure with its error message; each path that could be removed was
\* removed whatever failed before it; a success is gone from the disk and
\* nothing else has changed.  [valid1, missing2, valid3] gives the successes
\* valid1, valid3 and a failure for missing2.
C6_EachPathIndependently ==
    Deleted =>
        /\ Len(del.successes) + Len(del.failures) = Len(del.paths)
        /\ \A p \in Range(del.paths) : (p \in Range(del.successes)) # (p \in FailedPaths)
        /\ Range(del.successes) \cup FailedPaths = Range(del.paths)
        /\ \A k \in 1..Len(del.failures) : del.failures[k][2] # ""
        /\ \A p \in Range(del.paths) :
             (IsFile(del.before, p) /\ p \notin del.denied) => p \in Range(del.successes)
        /\ \A p \in Range(del.successes) : IsFile(del.before, p) /\ ~Exists(fs, p)
        /\ DOMAIN fs = (DOMAIN del.before) \ Range(del.successes)
        /\ \A q \in DOMAIN fs : fs[q] = del.before[q]
        /\ (/\ del.paths = <<PathA, PathD, PathC>>
            /\ IsFile(del.before, PathA) /\ ~Exists(del.before, PathD)
            /\ IsFile(del.before, PathC) /\ del.denied = {})
           => (del.successes = <<PathA, PathC>> /\ FailedPaths = {PathD})

\* C6's case: the batch [valid1, missing2, valid3].
C6_Witness ==
    /\ Deleted /\ del.paths = <<PathA, PathD, PathC>>
    /\ ~Exists(del.before, PathD)
    /\ del.successes = <<PathA, PathC>>
    /\ ~Exists(fs, PathA) /\ ~Exists(fs, PathC)

\* C7: the select box never offers a subdirectory named .thumbnails.
C7_ThumbDirNeverOffered ==
    \A i \in 1..Len(subdirs) : BaseName(subdirs[i]) # THUMB_DIRNAME

\* C8: no confirmed deletion removes a file that lies inside a .thumbnails
\* directory.
C8_ThumbnailNeverDeleted ==
    Deleted => \A p \in Range(del.successes) : THUMB_DIRNAME \notin Range(p)

Listed == listed.op = "list"

\* C9: list_images yields the empty sequence whenever an error occurs, at
\* whatever point of the scan.
C9_EmptyOnAnyError ==
    (Listed /\ listed.errAt >= 0) => listed.out = <<>>

\* Whether name ends in a dot and ext, whatever the case of its letters, after
\* at least one other character.
EndsWithExt(name, ext) ==
    /\ Len(name) > Len(ext) + 1
    /\ Char(name, Len(name) - Len(ext)) = "."
    /\ \A i \in 1..Len(ext) :
         LET c == Char(name, Len(name) - Len(ext) + i)
         IN  c = Char(ext, i) \/ (CharCode(c) + 27 = CharCode(Char(ext, i)))

Wanted(f, dirpath) ==
    {p \in Children(f, dirpath) :
        /\ f[p].kind = "file"
        /\ \E ext \in {"png", "jpg", "jpeg", "gif", "bmp", "webp", "tiff"} :
             EndsWithExt(BaseName(p), ext)}

\* C10: with no error, list_images returns exactly the direct children that
\* are regular files with a recognized extension in any case, each once and
\* with its modification time; no directory and no other file appears.  A
\* directory holding a.png, b.txt and .thumbnails/ gives [a.png].
C10_ExactlyTheImages ==
    (Listed /\ listed.errAt = -1) =>
        /\ {listed.out[i][1] : i \in 1..Len(listed.out)} = Wanted(fs, listed.dir)
        /\ Len(listed.out) = Cardinality(Wanted(fs, listed.dir))
        /\ \A i \in 1..Len(listed.out) : listed.out[i][2] = fs[listed.out[i][1]].mtime
        /\ \A i \in 1..Len(listed.out) :
             /\ ~IsDir(fs, listed.out[i][1])
             /\ BaseName(listed.out[i][1]) # THUMB_DIRNAME
        /\ (/\ {PathA, PathB, Child(listed.dir, THUMB_DIRNAME)} \subseteq Children(fs, listed.dir)
            /\ \A p \in Children(fs, listed.dir) \ {PathA, PathB} : IsDir(fs, p))
           => listed.out = << <<PathA, fs[PathA].mtime>> >>

\* C10's case: the directory of the example, with a.png, b.txt and .thumbnails/.
C10_Witness ==
    /\ Listed /\ listed.errAt = -1 /\ listed.dir = BaseDir
    /\ IsDir(fs, Child(BaseDir, THUMB_DIRNAME))
    /\ listed.out = << <<PathA, fs[PathA].mtime>> >>

(***************************************************************************)
(* The renderer: the arithmetic of lines 115-134.  Python divides and      *)
(* multiplies in IEEE doubles (53 significant bits, round to nearest even) *)
(* and int() drops the fraction.  TruncatedProduct(s, t, d) is             *)
(* int(s * (t / d)) for positive integers, computed on integers: the       *)
(* quotient t / d is rounded to 53 bits, the product is rounded again,     *)
(* and when the exact product s*t/d is an integer e the doubles can end    *)
(* just below e, which int() turns into e - 1.                             *)
(***************************************************************************)
THUMB_SIZE == <<320, 320>>

MaxSide == 8

Max(a, b) == IF a >= b THEN a ELSE b

RECURSIVE Pow2(_)
Pow2(n) == IF n = 0 THEN 1 ELSE 2 * Pow2(n - 1)

\* The binary exponent of num/den: the k with 2^k <= num/den < 2^(k+1).
RECURSIVE Exponent(_, _)
Exponent(num, den) ==
    IF num >= 2 * den THEN Exponent(num, 2 * den) + 1
    ELSE IF num < den THEN Exponent(2 * num, den) - 1
    ELSE 0

\* (r * 2^n) % m
RECURSIVE DoubleMod(_, _, _)
DoubleMod(r, n, m) == IF n = 0 THEN r ELSE DoubleMod((2 * r) % m, n - 1, m)

\* Whether the double s * (t / d) lies below the integer e = s*t/d.  With k
\* the exponent of t/d, the quotient's 53-bit significand is t*2^(52-k)/d
\* rounded to nearest; it is rounded down by r/d, r the remainder, when
\* 0 < 2r < d.  The product then misses e*2^(52-k) by dist = s*r/d units, and
\* rounding it to 53 bits gives less than e when dist exceeds half the
\* spacing of the doubles below e (that spacing halves below a power of two).
ProductBelow(s, t, d, e) ==
    LET k == Exponent(t, d)
        r == DoubleMod(t % d, 52 - k, d)
        dist == (s * r) \div d
        be == Exponent(e, 1)
        half == be - k - (IF e = Pow2(be) THEN 2 ELSE 1)
    IN  /\ r # 0
        /\ 2 * r < d
        /\ IF half >= 0 THEN dist > Pow2(half) ELSE dist * Pow2(-half) > 1

\* int(s * (t / d)) as line 118 and line 119 compute it, ratio being t / d.
\* A product that is no integer is at least 1/d away from one, far more than
\* the doubles' error, so its truncation is the exact floor.
TruncatedProduct(s, t, d) ==
    LET e == (s * t) \div d
    IN  IF (s * t) % d # 0 THEN e
        ELSE IF ProductBelow(s, t, d, e) THEN e - 1
        ELSE e

\* round(s * t / d): the nearest integer, a tie going to the even one.
RoundedProduct(s, t, d) ==
    LET e == (s * t) \div d
        twice == 2 * ((s * t) % d)
    IN  IF twice < d THEN e
        ELSE IF twice > d THEN e + 1
        ELSE IF e % 2 = 0 THEN e ELSE e + 1

\* Line 117: ratio = min(target_w / src_w, target_h / src_h), as the pair
\* <<t, d>> of the quotient that is taken.
Ratio(src_w, src_h, target_w, target_h) ==
    IF target_w * src_h <= target_h * src_w THEN <<target_w, src_w>> ELSE <<target_h, src_h>>

\* Lines 132-133.
OffsetTopLeft(target, new) == 0

Offset(target, new) == (target - new) \div 2

\* Lines 115-134: the size of the resized image, the canvas and the paste.
Canvas(src_w, src_h, target_w, target_h) ==
    LET ratio == Ratio(src_w, src_h, target_w, target_h)
        new_w == Max(1, TruncatedProduct(src_w, ratio[1], ratio[2]))
        new_h == Max(1, TruncatedProduct(src_h, ratio[1], ratio[2]))
    IN  [stage |-> "canvas", src_w |-> src_w, src_h |-> src_h,
         target_w |-> target_w, target_h |-> target_h,
         new_w |-> new_w, new_h |-> new_h,
         offset_x |-> Offset(target_w, new_w), offset_y |-> Offset(target_h, new_h),
         width |-> target_w, height |-> target_h]

\* The source sides and the target sides the renderer is run on: the small
\* ones, 77 (the smallest side that 320 / 77 scales back to less than 320)
\* and the side of THUMB_SIZE.
SourceSides == (1 .. MaxSide) \cup {77}

TargetSides == {1, 3, THUMB_SIZE[1]}

Source(src_w, src_h, target_w, target_h) ==
    [NoRender EXCEPT !.stage = "source", !.src_w = src_w, !.src_h = src_h,
                     !.target_w = target_w, !.target_h = target_h]

InitRender ==
    /\ Gallery
    /\ sessions = NoSessions
    /\ keyed = NoKeys
    /\ \E src_w \in SourceSides, src_h \in SourceSides :
       \E target_w \in TargetSides, target_h \in TargetSides :
          render = Source(src_w, src_h, target_w, target_h)

Render ==
    /\ render.stage = "source"
    /\ render' = Canvas(render.src_w, render.src_h, render.target_w, render.target_h)
    /\ UNCHANGED <<fs, now, envWrites, call, listed, del, ui, sessions, keyed>>

NextRender == Render

SpecRender == InitRender /\ [][NextRender]_vars

\* C11: for every source size with both sides at least 1 and every target
\* size, the resized image is max(1, round(src_w * ratio)) wide and
\* max(1, round(src_h * ratio)) high, ratio being
\* min(target_w / src_w, target_h / src_h).
C11_ResizedToRounded ==
    render.stage = "canvas" =>
        LET ratio == Ratio(render.src_w, render.src_h, render.target_w, render.target_h)
        IN  /\ render.new_w = Max(1, RoundedProduct(render.src_w, ratio[1], ratio[2]))
            /\ render.new_h = Max(1, RoundedProduct(render.src_h, ratio[1], ratio[2]))

Abs(a) == IF a >= 0 THEN a ELSE -a

\* C12: for every source size with both sides at least 1 and every square
\* target T x T, the canvas is exactly T x T, the resized image is pasted
\* entirely inside it, the left and right margins and the top and bottom
\* margins differ by at most one pixel, and the width and the height of the
\* pasted region are each within one pixel of the exactly scaled source side.
C12_CenteredInsideCanvas ==
    (render.stage = "canvas" /\ render.target_w = render.target_h) =>
        LET T == render.target_w
            ratio == Ratio(render.src_w, render.src_h, T, T)
        IN  /\ render.width = T /\ render.height = T
            /\ render.offset_x >= 0 /\ render.offset_x + render.new_w <= T
            /\ render.offset_y >= 0 /\ render.offset_y + render.new_h <= T
            /\ Abs((T - render.offset_x - render.new_w) - render.offset_x) <= 1
            /\ Abs((T - render.offset_y - render.new_h) - render.offset_y) <= 1
            /\ Abs(render.new_w * ratio[2] - render.src_w * ratio[1]) <= ratio[2]
            /\ Abs(render.new_h * ratio[2] - render.src_h * ratio[1]) <= ratio[2]

\* C12's case: a wide source fills the width of the THUMB_SIZE canvas and
\* leaves an odd number of rows, so that the two margins cannot be equal.
C12_Witness ==
    /\ render.stage = "canvas"
    /\ <<render.target_w, render.target_h>> = THUMB_SIZE
    /\ render.new_w = render.width
    /\ render.new_h < render.height
    /\ (render.height - render.new_h) % 2 = 1

(***************************************************************************)
(* The keyer on its own: thumb_path_for applied to two image paths, each   *)
(* spelled with up to MaxDepth names ("..", a directory name or a file     *)
(* name), and to the cache directory of each.                              *)
(***************************************************************************)
MaxDepth == 2

KeyNames == {NameA, NameAlb, ".."}

ImagePaths == UNION {[1 .. n -> KeyNames] : n \in 1 .. MaxDepth}

ThumbDirs == {Child(BaseDir, THUMB_DIRNAME), Child(AlbDir, THUMB_DIRNAME)}

InitKey ==
    /\ Gallery
    /\ render = NoRender
    /\ sessions = NoSessions
    /\ \E p1 \in ImagePaths, p2 \in ImagePaths, td1 \in ThumbDirs, td2 \in ThumbDirs :
          keyed = [NoKeys EXCEPT !.stage = "paths", !.image_path = <<p1, p2>>,
                                 !.thumb_dir = <<td1, td2>>]

Key ==
    /\ keyed.stage = "paths"
    /\ keyed' = [keyed EXCEPT
                   !.stage = "keys",
                   !.key = <<thumb_path_for(keyed.image_path[1], keyed.thumb_dir[1], "none").path,
                             thumb_path_for(keyed.image_path[2], keyed.thumb_dir[2], "none").path>>]
    /\ UNCHANGED <<fs, now, envWrites, call, listed, del, ui, render, sessions>>

NextKey == Key

SpecKey == InitKey /\ [][NextKey]_vars

\* C13: the cache file path is a function of the image's resolved path and the
\* cache directory: two image paths that resolve to the same path get, in the
\* same cache directory, the same cache file path, and two images whose
\* resolved paths differ (the same name in two directories, say) never get the
\* same cache file path.
C13_KeyOfResolvedPath ==
    keyed.stage = "keys" =>
        /\ (/\ Resolve(keyed.image_path[1]) = Resolve(keyed.image_path[2])
            /\ keyed.thumb_dir[1] = keyed.thumb_dir[2])
           => keyed.key[1] = keyed.key[2]
        /\ Resolve(keyed.image_path[1]) # Resolve(keyed.image_path[2])
           => keyed.key[1] # keyed.key[2]

\* C13's case: a.png of base_dir, spelled ../a.png, and a.png of alb, keyed
\* into one cache directory.
C13_Witness ==
    /\ keyed.stage = "keys"
    /\ keyed.image_path = << <<"..", NameA>> , <<NameAlb, NameA>> >>
    /\ keyed.thumb_dir[1] = keyed.thumb_dir[2]
    /\ keyed.key[1] # keyed.key[2]

(***************************************************************************)
(* Two sessions.  Streamlit runs the script of each browser session in a   *)
(* thread of its own, so two sessions showing the same gallery are inside  *)
(* generate_thumbnail_if_needed for the same image at once.  A call is the *)
(* sequence of its file system operations: the cache check (line 107), the *)
(* open of canvas.save that creates or truncates the file, the write of    *)
(* the encoded image and the close (line 138), os.utime (line 142) and the *)
(* return (line 146).  Each session has its own pc; the sessions share fs. *)
(***************************************************************************)
Sessions == {1, 2}

MaxCalls == 1

IdleSession(image_path) ==
    [pc |-> "idle", image_path |-> image_path, thumb_path |-> <<>>, calls |-> 0,
     ret |-> "none", whole |-> TRUE]

InitSessions ==
    /\ Gallery
    /\ render = NoRender
    /\ keyed = NoKeys
    /\ \E image_path \in Originals :
          sessions = [s \in Sessions |-> IdleSession(image_path)]

\* Lines 265 and 270: the grid makes the cache directory, computes the cache
\* path and calls generate_thumbnail_if_needed.
SessionCall(s) ==
    /\ sessions[s].pc \in {"idle", "returned"}
    /\ sessions[s].calls < MaxCalls
    /\ \E e \in {ensure_thumb_dir(fs, Parent(sessions[s].image_path), "none")} :
          /\ fs' = e.fs
          /\ sessions' = [sessions EXCEPT
                            ![s].pc = "check",
                            ![s].thumb_path = thumb_path_for(sessions[s].image_path, e.td, "none").path,
                            ![s].calls = @ + 1,
                            ![s].ret = "none",
                            ![s].whole = TRUE]
    /\ UNCHANGED <<now, envWrites, call, listed, del, ui, render, keyed>>

\* Lines 107-108: the file exists and is not older than the source: return
\* thumb_path.  whole records whether the file held a complete image then.
SessionCheck(s) ==
    /\ sessions[s].pc = "check"
    /\ IF UpToDate(fs, sessions[s].image_path, sessions[s].thumb_path)
       THEN sessions' = [sessions EXCEPT ![s].pc = "returned", ![s].ret = "thumb",
                                         ![s].whole = fs[sessions[s].thumb_path].ok]
       ELSE sessions' = [sessions EXCEPT ![s].pc = "open"]
    /\ UNCHANGED <<fs, now, envWrites, call, listed, del, ui, render, keyed>>

\* Line 138, first half: canvas.save opens thumb_path for writing, which
\* creates the file or empties it.
SessionOpen(s) ==
    /\ sessions[s].pc = "open"
    /\ fs' = Put(fs, sessions[s].thumb_path, Truncated(fs[sessions[s].image_path], now))
    /\ sessions' = [sessions EXCEPT ![s].pc = "write"]
    /\ UNCHANGED <<now, envWrites, call, listed, del, ui, render, keyed>>

\* Line 138, second half: the encoded image is written and the file closed.
SessionWrite(s) ==
    /\ sessions[s].pc = "write"
    /\ fs' = Put(fs, sessions[s].thumb_path, Rendered(fs[sessions[s].image_path], now))
    /\ sessions' = [sessions EXCEPT ![s].pc = "utime"]
    /\ UNCHANGED <<now, envWrites, call, listed, del, ui, render, keyed>>

\* Lines 141-144.
SessionUtime(s) ==
    /\ sessions[s].pc = "utime"
    /\ fs' = SetThumbMtime(fs, sessions[s].image_path, sessions[s].thumb_path, "none")
    /\ sessions' = [sessions EXCEPT ![s].pc = "return"]
    /\ UNCHANGED <<now, envWrites, call, listed, del, ui, render, keyed>>

\* Line 146.
SessionReturn(s) ==
    /\ sessions[s].pc = "return"
    /\ sessions' = [sessions EXCEPT ![s].pc = "returned", ![s].ret = "thumb",
                                    ![s].whole = fs[sessions[s].thumb_path].ok]
    /\ UNCHANGED <<fs, now, envWrites, call, listed, del, ui, render, keyed>>

NextSessions ==
    \/ \E s \in Sessions : SessionCall(s)
    \/ \E s \in Sessions : SessionCheck(s)
    \/ \E s \in Sessions : SessionOpen(s)
    \/ \E s \in Sessions : SessionWrite(s)
    \/ \E s \in Sessions : SessionUtime(s)
    \/ \E s \in Sessions : SessionReturn(s)
    \/ Tick

SpecSessions == InitSessions /\ [][NextSessions]_vars

\* C14: when two sessions call generate_thumbnail_if_needed for the same
\* image at the same time, under every interleaving of their checks, writes
\* and mtime updates, neither call returns the thumbnail path while the file
\* at that path is only partially written by the other call.
C14_NeverReturnsPartialFile ==
    \A s \in Sessions :
        (sessions # NoSessions /\ sessions[s].pc = "returned" /\ sessions[s].ret = "thumb")
            => sessions[s].whole

\* The files that a step removes.
Removed == {p \in DOMAIN fs : ~Exists(fs', p)}

\* C15, for one step of the script: a step that removes a file, and a step
\* that calls delete_paths, starts with the confirmation dialog open, passes
\* to delete_paths exactly the paths which that dialog shows, removes none but
\* those and leaves the staged list and the checkbox selection empty; any
\* other step taken with the dialog open (its dismissal) removes no file and
\* empties the staged list.
C15_Step ==
    /\ (Removed # {} \/ del'.op = "delete") =>
          /\ page = "confirm"
          /\ del'.op = "delete"
          /\ del'.paths = Shown(to_delete)
          /\ Len(del'.paths) <= ConfirmLimit
          /\ Removed \subseteq Range(del'.paths)
          /\ to_delete' = <<>>
          /\ checked' = {}
    /\ (page = "confirm" /\ del'.op # "delete") =>
          /\ Removed = {}
          /\ to_delete' = <<>>

\* C15: a file is removed from disk only by the confirm button of the
\* confirmation dialog, delete_paths gets exactly the paths that the dialog
\* displayed, dismissing the dialog removes no file and empties the staged
\* list, and after a confirmed deletion the staged list and the checkbox
\* selection are empty.
C15_OnlyConfirmRemoves == [][C15_Step]_vars

\* C15's case: two ticked images were staged by the bulk delete button,
\* shown by the dialog and removed by its confirm button.
C15_Witness ==
    /\ del.op = "delete"
    /\ Len(del.paths) = 2
    /\ Len(del.successes) = 2
    /\ \A i \in 1 .. 2 : ~Exists(fs, del.paths[i])
    /\ to_delete = <<>>
    /\ checked = {}

\* C16, for one step of the script: every key that is True in checked after
\* the step is a valid index into the images list of that run, and a key that
\* was True before the step and still is designates the image it designated
\* before, the one the user ticked.  Stated for the runs that no exception
\* has ended and for the galleries of the images (not the cache directory
\* that line 208 offers as well).
C16_Step ==
    (crashes' = 0 /\ {selected_subdir, selected_subdir'} \subseteq {".", NameAlb}) =>
        \A k \in checked' :
            /\ k < Len(images')
            /\ (k \in checked /\ k < Len(images)) => images'[k + 1][1] = images[k + 1][1]

\* C16: after any sequence of tick and untick, select all, clear all, sort
\* order change, subdirectory change, reload and deletion, every key with
\* value True in checked is a valid index into the current images list and
\* designates the image the user ticked, so that the bulk delete button
\* stages exactly the ticked images.
C16_CheckedFollowsImages == [][C16_Step]_vars

\* C17: whenever the preview dialog runs, preview_index is a valid index
\* into the current images list; outside the dialog it is -1 or such an
\* index.  (The dialog has run in the runs that ended on "preview" or "both",
\* and in those that Dispatch ended with the IndexError of line 293.)
C17_PreviewIndexValid ==
    /\ preview_index = -1 \/ (0 <= preview_index /\ preview_index < Len(images))
    /\ PreviewUp => (0 <= preview_index /\ preview_index < Len(images))

\* C18: at most one dialog is opened per script run: at the dialog dispatch at
\* the end of the script it is never the case that preview_index >= 0 and
\* to_delete is non-empty at the same time.  (The runs that got to the
\* dispatch are those that ended on "grid", "preview", "confirm" or "both".)
C18_OneDialogPerRun ==
    page \in {"grid", "preview", "confirm", "both"} =>
        ~(preview_index >= 0 /\ to_delete # <<>>)

====
